---- MODULE Spec2Model ----
(***************************************************************************)
(* State-machine model of the logical optimizer core of mars               *)
(* (mars/optimization/logical/core.py): the provenance store               *)
(* OptimizationRecords and the graph surgery of OptimizationRule.          *)
(***************************************************************************)
EXTENDS Integers, Sequences, FiniteSets, TLC

----------------------------------------------------------------------------
(* Values and the node universe                                            *)

\* Python's None: the omitted default, the "deleted" result, "no original".
None == "None"

\* Outcome of a while loop that never exits (the call does not return).
Hang == "Hang"

\* The entities of the model: P -> Q -> R is a producer chain, Q2 is a
\* rewritten form of Q (it keeps Q's key and Q's input, as the rewrite rules
\* build it with _key=node.key).
Nodes == {"P", "Q", "R", "Q2"}

\* node.key
key(n) == IF n = "Q2" THEN "kQ" ELSE "k" \o n

\* keys of node.outputs (every node of the model has one output, itself)
OutputKeys(n) == {key(n)}

\* node.inputs when the graph is built
InitialInputs ==
    [n \in Nodes |->
        CASE n = "P" -> << >>
          [] n = "Q" -> <<"P">>
          [] n = "R" -> <<"Q">>
          [] n = "Q2" -> <<"P">>]

Range(s) == {s[i] : i \in DOMAIN s}

\* list(a_set): the elements of S in some order
ListsOf(S) ==
    {s \in [1..Cardinality(S) -> S] : Range(s) = S}

\* one list of the elements of S
AList(S) == CHOOSE s \in ListsOf(S) : TRUE

----------------------------------------------------------------------------
(* Bounds                                                                  *)

\* longest provenance log explored
MaxLog == 2

\* most nodes in a replacement graph, and in nodes_to_remove
MaxArg == 2

\* most rule types registered with an optimizer
MaxRules == 2

SetsUpTo(S, n) == {T \in SUBSET S : Cardinality(T) <= n}

----------------------------------------------------------------------------
VARIABLES
    nodes,      \* self._graph: the node set
    edges,      \* self._graph: the edges, pairs <<pred, succ>>
    results,    \* self._graph.results, a list
    inputs,     \* node.inputs of every entity
    records,    \* OptimizationRecords._records
    original_entity_to_records,   \* OptimizationRecords._original_entity_to_records
    optimized_entity_to_records,  \* OptimizationRecords._optimized_entity_to_records
    last,       \* the most recent call: its name, arguments and outcome
    preds_to_remove,  \* OptimizationRule._preds_to_remove, a class attribute
    marked_nodes,     \* _EvalRewriteOptimizationRule._marked_nodes
    rule_types,       \* Optimizer._rule_types, in registration order
    op,               \* entity.op of every entity
    pc          \* where Optimizer.optimize or apply() stands, with its locals

vars == <<nodes, edges, results, inputs, records,
          original_entity_to_records, optimized_entity_to_records, last,
          preds_to_remove, marked_nodes, rule_types, op, pc>>

graphVars == <<nodes, edges, results, inputs>>
recordVars == <<records, original_entity_to_records, optimized_entity_to_records>>
ruleVars == <<preds_to_remove, marked_nodes>>
driverVars == <<rule_types, op, pc>>

----------------------------------------------------------------------------
(* OptimizationRecords                                                     *)

\* OptimizationRecord(original_entity, new_entity, record_type)
OptimizationRecord(original_entity, new_entity, record_type) ==
    [original_entity |-> original_entity, new_entity |-> new_entity,
     record_type |-> record_type]

\* the records a rule appends
RecordsOf(E) ==
    {OptimizationRecord(a, b, "replace") : a \in E, b \in E}
        \cup {OptimizationRecord(None, b, "new") : b \in E}
        \cup {OptimizationRecord(a, None, "delete") : a \in E}

\* dict()
EmptyDict == [x \in {} |-> x]

\* d[k] = v
Put(d, k, v) == [x \in DOMAIN d \cup {k} |-> IF x = k THEN v ELSE d[x]]

\* d.setdefault(k, v) in place of d[k] = v: the first record of a key stays
PutIfAbsent(d, k, v) == IF k \in DOMAIN d THEN d ELSE Put(d, k, v)

\* append_record without the tests of the record kind: every record goes
\* into both indices
append_record_AnyKind(record) ==
    /\ records' = Append(records, record)
    /\ original_entity_to_records' =
          Put(original_entity_to_records, record.original_entity, record)
    /\ optimized_entity_to_records' =
          Put(optimized_entity_to_records, record.new_entity, record)

\* append_record with first-write-wins indices
append_record_FirstWins(record) ==
    /\ records' = Append(records, record)
    /\ original_entity_to_records' =
          IF record.record_type \in {"replace", "delete"}
          THEN PutIfAbsent(original_entity_to_records, record.original_entity, record)
          ELSE original_entity_to_records
    /\ optimized_entity_to_records' =
          IF record.record_type \in {"new", "replace"}
          THEN PutIfAbsent(optimized_entity_to_records, record.new_entity, record)
          ELSE optimized_entity_to_records

append_record(record) ==
    /\ records' = Append(records, record)
    /\ original_entity_to_records' =
          IF record.record_type \in {"replace", "delete"}
          THEN Put(original_entity_to_records, record.original_entity, record)
          ELSE original_entity_to_records
    /\ optimized_entity_to_records' =
          IF record.record_type \in {"new", "replace"}
          THEN Put(optimized_entity_to_records, record.new_entity, record)
          ELSE optimized_entity_to_records

\* a failed assert on the record kind
AssertionError == "AssertionError"

\* The while loop of get_optimization_result from `entity`. The loop reads
\* nothing but the index and the entity, so reaching an entity it has left
\* before means it never exits: Hang.
RECURSIVE forward_walk(_, _)

\* an if in place of the while: one hop only
forward_walk_OneHop(entity, seen) ==
    IF entity \notin DOMAIN original_entity_to_records THEN entity
    ELSE LET record == original_entity_to_records[entity]
         IN  IF record.record_type = "replace" THEN record.new_entity ELSE None

forward_walk(entity, seen) ==
    IF entity \notin DOMAIN original_entity_to_records THEN entity
    ELSE IF entity \in seen THEN Hang
    ELSE LET record == original_entity_to_records[entity]
         IN  IF record.record_type = "replace"
             THEN forward_walk(record.new_entity, seen \cup {entity})
             ELSE IF record.record_type = "delete" THEN None
             ELSE AssertionError

\* the early return forgets the default
get_optimization_result_NoDefault(original_entity, default) ==
    IF original_entity \notin DOMAIN original_entity_to_records
    THEN None
    ELSE forward_walk(original_entity, {})

get_optimization_result(original_entity, default) ==
    IF original_entity \notin DOMAIN original_entity_to_records
    THEN default
    ELSE forward_walk(original_entity, {})

\* The while loop of get_original_entity, likewise.
RECURSIVE backward_walk(_, _)
backward_walk(entity, seen) ==
    IF entity \notin DOMAIN optimized_entity_to_records THEN entity
    ELSE IF entity \in seen THEN Hang
    ELSE LET record == optimized_entity_to_records[entity]
         IN  IF record.record_type = "replace"
             THEN backward_walk(record.original_entity, seen \cup {entity})
             ELSE IF record.record_type = "new" THEN None
             ELSE AssertionError

\* a New hop falls back to the default
get_original_entity_DefaultOnNew(optimized_entity, default) ==
    IF optimized_entity \notin DOMAIN optimized_entity_to_records
    THEN default
    ELSE LET r == backward_walk(optimized_entity, {})
         IN  IF r = None THEN default ELSE r

get_original_entity(optimized_entity, default) ==
    IF optimized_entity \notin DOMAIN optimized_entity_to_records
    THEN default
    ELSE backward_walk(optimized_entity, {})

AppendRecord ==
    \E record \in RecordsOf(Nodes) :
        /\ Len(records) < MaxLog
        /\ append_record(record)
        /\ last' = [op |-> "append_record", record |-> record]
        /\ UNCHANGED <<graphVars, ruleVars, driverVars>>

\* a caller passes a node as the default, or omits it (None)
GetOptimizationResult ==
    \E original_entity \in Nodes : \E default \in Nodes \cup {None} :
        /\ last' = [op |-> "get_optimization_result",
                    entity |-> original_entity, default |-> default,
                    ret |-> get_optimization_result(original_entity, default)]
        /\ UNCHANGED <<graphVars, recordVars, ruleVars, driverVars>>

GetOriginalEntity ==
    \E optimized_entity \in Nodes : \E default \in Nodes \cup {None} :
        /\ last' = [op |-> "get_original_entity",
                    entity |-> optimized_entity, default |-> default,
                    ret |-> get_original_entity(optimized_entity, default)]
        /\ UNCHANGED <<graphVars, recordVars, ruleVars, driverVars>>

----------------------------------------------------------------------------
(* The host graph (EntityGraph)                                            *)

predecessors(n) == {u \in nodes : <<u, n>> \in edges}
successors(n) == {v \in nodes : <<n, v>> \in edges}

\* graph.remove_node for every node of S: the nodes and their incident edges
RemoveNodes(E, S) == {e \in E : e[1] \notin S /\ e[2] \notin S}

\* A graph as the host builds it: closed under inputs, one edge per input.
BuiltGraphs ==
    {S \in SUBSET Nodes : \A n \in S : Range(InitialInputs[n]) \subseteq S}

BuiltEdges(S) ==
    {e \in S \X S : e[1] \in Range(InitialInputs[e[2]])}

\* A replacement graph handed to _replace_subgraph (only its nodes are
\* read), and the argument graph=None.
EntityGraph(S) == [is_none |-> FALSE, nodes |-> S]
NoGraph == [is_none |-> TRUE, nodes |-> {}]

----------------------------------------------------------------------------
(* OptimizationRule._replace_subgraph                                      *)

\* output_to_node after both indexing loops: a key produced by a surviving
\* host node maps to (one of) those, since the host loop runs second and
\* overwrites; otherwise to (one of) the replacement nodes producing it.
\* the two indexing loops in the other order: the replacement graph wins
Producers_ReplacementFirst(graph, nodes_to_remove, k) ==
    LET repl == {n \in graph : k \in OutputKeys(n)}
    IN  IF repl # {} THEN repl
        ELSE {n \in nodes \ nodes_to_remove : k \in OutputKeys(n)}

Producers(graph, nodes_to_remove, k) ==
    LET host == {n \in nodes \ nodes_to_remove : k \in OutputKeys(n)}
    IN  IF host # {} THEN host ELSE {n \in graph : k \in OutputKeys(n)}

MergedKeys(graph, nodes_to_remove) ==
    UNION {OutputKeys(n) : n \in graph \cup (nodes \ nodes_to_remove)}

MergedIndexes(graph, nodes_to_remove) ==
    {f \in [MergedKeys(graph, nodes_to_remove) -> Nodes] :
        \A k \in DOMAIN f : f[k] \in Producers(graph, nodes_to_remove, k)}

\* the membership test of the collecting loop inverted
AffectedSuccessors_Inverted(nodes_to_remove) ==
    {s \in nodes \cap nodes_to_remove :
        \E n \in nodes_to_remove : <<n, s>> \in edges}

AffectedSuccessors(nodes_to_remove) ==
    {s \in nodes \ nodes_to_remove :
        \E n \in nodes_to_remove : <<n, s>> \in edges}

InputKeys(n) == {key(inputs[n][i]) : i \in DOMAIN inputs[n]}

\* the edges the reconnection loop adds for node n, all of its inputs
\* add_edge(node, pred_node): the edge the wrong way round
Reconnect_Reversed(output_to_node, n) ==
    {<<n, output_to_node[key(inputs[n][i])]>> : i \in DOMAIN inputs[n]}

Reconnect(output_to_node, n) ==
    {<<output_to_node[key(inputs[n][i])], n>> : i \in DOMAIN inputs[n]}

\* the edges it adds for node n before the lookup of a missing key raises
ReconnectUntilMissing(output_to_node, n) ==
    LET bad == {i \in DOMAIN inputs[n] :
                    key(inputs[n][i]) \notin DOMAIN output_to_node}
        first == CHOOSE i \in bad : \A j \in bad : i <= j
    IN  {<<output_to_node[key(inputs[n][i])], n>> : i \in 1..(first - 1)}

Call(graph, nodes_to_remove, new_results, results_to_remove, outcome) ==
    [op |-> "replace_subgraph", graph |-> graph,
     nodes_to_remove |-> nodes_to_remove, new_results |-> new_results,
     results_to_remove |-> results_to_remove, outcome |-> outcome]

\* The ways a call can end
Outcomes == {"ok", "ValueError", "KeyError", "TypeError", Hang}

\* The body of _replace_subgraph. `call` is the record of the call that runs
\* it; it is left in `last` with the way the body ended as its outcome: "ok",
\* or the exception raised.
replace_subgraph_body(graph, nodes_to_remove, new_results, results_to_remove, call) ==
    LET G == IF graph = NoGraph THEN {} ELSE graph.nodes
        final_results ==
            {x \in Range(results) : x \notin results_to_remove} \cup new_results
        affected_successors == AffectedSuccessors(nodes_to_remove)
        raise(e) ==
            /\ last' = [call EXCEPT !.outcome = e]
            /\ UNCHANGED <<nodes, edges, results>>
    IN
    /\ inputs' = inputs
    /\ \E output_to_node \in MergedIndexes(G, nodes_to_remove) :
        IF G \cap nodes_to_remove # {}
        THEN raise("ValueError")
        ELSE IF \E r \in new_results : key(r) \notin DOMAIN output_to_node
        THEN raise("ValueError")
        ELSE IF ~(nodes_to_remove \subseteq nodes)
        THEN \* iter_successors of a node the host graph does not hold
             raise("KeyError")
        ELSE IF \E s \in affected_successors :
                    ~(InputKeys(s) \subseteq DOMAIN output_to_node)
        THEN raise("ValueError")
        ELSE
        \* all the pre-checks passed: the nodes are removed
        LET nodes1 == nodes \ nodes_to_remove
            edges1 == RemoveNodes(edges, nodes_to_remove)
            missing == {n \in G : ~(InputKeys(n) \subseteq DOMAIN output_to_node)}
        IN
        IF graph = NoGraph
        THEN /\ nodes' = nodes1
             /\ edges' = edges1
             /\ results' = results
             /\ last' = [call EXCEPT !.outcome = "ok"]
        ELSE IF missing # {}
        THEN \* output_to_node[inp.key] raises in the reconnection loop, at
             \* the first replacement node in iteration order with a missing
             \* key; the nodes iterated before it are fully reconnected
             \E f \in missing : \E before \in SUBSET (G \ missing) :
                /\ nodes' = nodes1 \cup G
                /\ edges' = edges1
                       \cup UNION {Reconnect(output_to_node, n) : n \in before}
                       \cup ReconnectUntilMissing(output_to_node, f)
                /\ results' = results
                /\ last' = [call EXCEPT !.outcome = "KeyError"]
        ELSE /\ nodes' = nodes1 \cup G
             /\ edges' = edges1
                    \cup UNION {Reconnect(output_to_node, n) :
                                    n \in G \cup affected_successors}
             /\ results' \in ListsOf(final_results)
             /\ last' = [call EXCEPT !.outcome = "ok"]

\* a call of _replace_subgraph on its own
replace_subgraph(graph, nodes_to_remove, new_results, results_to_remove) ==
    /\ replace_subgraph_body(graph, nodes_to_remove, new_results,
                             results_to_remove,
                             Call(graph, nodes_to_remove, new_results,
                                  results_to_remove, "ok"))
    /\ UNCHANGED <<recordVars, ruleVars, driverVars>>

\* the argument lists a rule passes: no entity, or one
ResultArgs == {{}} \cup {{n} : n \in Nodes}

ReplaceSubgraph ==
    \E graph \in {NoGraph} \cup {EntityGraph(S) : S \in SetsUpTo(Nodes, MaxArg)} :
    \E nodes_to_remove \in SetsUpTo(nodes, MaxArg) :
    \E new_results \in ResultArgs :
    \E results_to_remove \in ResultArgs :
        replace_subgraph(graph, nodes_to_remove, new_results, results_to_remove)

----------------------------------------------------------------------------
(* Specifications                                                          *)

NoCall == [op |-> "none"]

NoRecords ==
    /\ records = << >>
    /\ original_entity_to_records = EmptyDict
    /\ optimized_entity_to_records = EmptyDict

\* every entity is the single output of an operand of its own
OwnOp == [n \in Nodes |-> n]

\* no rule has run, no rule type is registered, no driver is running
NoRules ==
    /\ preds_to_remove = EmptyDict
    /\ marked_nodes = {}
    /\ rule_types = << >>
    /\ op = OwnOp
    /\ pc = [at |-> "idle"]

\* The graph handed to Optimizer.optimize: built by the host, its results
\* among its nodes; a fresh OptimizationRecords.
Init ==
    /\ nodes \in BuiltGraphs
    /\ edges = BuiltEdges(nodes)
    /\ results \in UNION {ListsOf(S) : S \in SUBSET nodes}
    /\ inputs = InitialInputs
    /\ NoRecords
    /\ NoRules
    /\ last = NoCall

\* The graphs a rule can meet when it calls _replace_subgraph, before or
\* after earlier rewrites: every input key of every node has a producer edge,
\* and an edge joins a producer of a key to a consumer of that key.
KeyEdges(S) ==
    {e \in S \X S : key(e[1]) \in {key(i) : i \in Range(InitialInputs[e[2]])}}

WellFormed(S, E) ==
    \A v \in S : \A i \in Range(InitialInputs[v]) :
        \E u \in S : key(u) = key(i) /\ <<u, v>> \in E

GraphInit ==
    /\ nodes \in SUBSET Nodes
    /\ edges \in SUBSET KeyEdges(nodes)
    /\ WellFormed(nodes, edges)
    /\ results \in {AList(S) : S \in SUBSET nodes}
    /\ inputs = InitialInputs
    /\ NoRecords
    /\ NoRules
    /\ last = NoCall

\* one call of _replace_subgraph on any such graph, with any arguments
GraphNext == last = NoCall /\ ReplaceSubgraph

GraphSpec == GraphInit /\ [][GraphNext]_vars

\* The provenance store on its own: any records appended in any order,
\* resolved at any time. The graph is the built chain P -> Q -> R.
RecordsInit ==
    /\ nodes = {"P", "Q", "R"}
    /\ edges = BuiltEdges(nodes)
    /\ results = <<"R">>
    /\ inputs = InitialInputs
    /\ NoRecords
    /\ NoRules
    /\ last = NoCall

RecordsNext ==
    \/ AppendRecord
    \/ GetOptimizationResult
    \/ GetOriginalEntity

RecordsSpec == RecordsInit /\ [][RecordsNext]_vars

\* The records a caller can build: those of the three kinds, and records
\* left without a kind (record_type defaults to None), with any fields.
AnyRecords ==
    RecordsOf({"P", "Q"})
        \cup {OptimizationRecord(a, b, None) : a, b \in {"P", "Q", None}}

AppendAnyRecord ==
    \E record \in AnyRecords :
        /\ Len(records) < MaxLog
        /\ append_record(record)
        /\ last' = [op |-> "append_record", record |-> record]
        /\ UNCHANGED <<graphVars, ruleVars, driverVars>>

\* The provenance store fed with records of any kind.
KindNext ==
    \/ AppendAnyRecord
    \/ GetOptimizationResult
    \/ GetOriginalEntity

KindSpec == RecordsInit /\ [][KindNext]_vars

Next ==
    \/ ReplaceSubgraph
    \/ AppendRecord
    \/ GetOptimizationResult
    \/ GetOriginalEntity

Spec == Init /\ [][Next]_vars

----------------------------------------------------------------------------
(* Claims about _replace_subgraph, checked under GraphSpec                 *)

IsReplaceSubgraph(c) == c.op = "replace_subgraph"

GraphUnchanged == nodes' = nodes /\ edges' = edges /\ results' = results

\* C1: if a call of _replace_subgraph fails with any error, the host
\* graph's nodes, edges and results are what they were before the call.
C1_FailedCallLeavesGraphUnmodified ==
    [][(IsReplaceSubgraph(last') /\ last'.outcome # "ok") => GraphUnchanged]_vars

\* A key has no producer in the merged index of the call: no node of the
\* replacement graph and no surviving host node outputs it.
NoProducer(c, k) ==
    ~ \E n \in c.graph.nodes \cup (nodes \ c.nodes_to_remove) : k \in OutputKeys(n)

NewResultWithoutProducer(c) ==
    \E r \in c.new_results : NoProducer(c, key(r))

ReplacementNodeRemoved(c) ==
    c.graph.nodes \cap c.nodes_to_remove # {}

SuccessorWithUnresolvedInput(c) ==
    \E s \in nodes \ c.nodes_to_remove :
        /\ \E n \in c.nodes_to_remove : <<n, s>> \in edges
        /\ \E i \in DOMAIN inputs[s] : NoProducer(c, key(inputs[s][i]))

\* C2: in each of the three cases (a new result without a producer, a
\* replacement node that is also to be removed, an affected successor with
\* an unresolvable input) _replace_subgraph raises ValueError, and the graph
\* is as it was: nothing has been removed.
C2_StructuralErrorBeforeRemoval ==
    [][(/\ IsReplaceSubgraph(last')
        /\ \/ NewResultWithoutProducer(last')
           \/ ReplacementNodeRemoved(last')
           \/ SuccessorWithUnresolvedInput(last'))
       => (last'.outcome = "ValueError" /\ GraphUnchanged)]_vars

\* C2's case: a call rejected only because a surviving successor of a
\* removed node lost the producer of an input.
C2_Witness ==
    /\ IsReplaceSubgraph(last)
    /\ last.outcome = "ValueError"
    /\ SuccessorWithUnresolvedInput(last)
    /\ ~ NewResultWithoutProducer(last)
    /\ ~ ReplacementNodeRemoved(last)

PureDeletion(c) ==
    /\ c.graph = NoGraph
    /\ c.new_results = {}
    /\ c.results_to_remove = c.nodes_to_remove \cap Range(results)

\* C3: a successful pure deletion removes exactly nodes_to_remove and their
\* incident edges, adds nothing, and leaves no removed node in the results.
C3_PureDeletion ==
    [][(IsReplaceSubgraph(last') /\ last'.outcome = "ok" /\ PureDeletion(last'))
       => (/\ nodes' = nodes \ last'.nodes_to_remove
           /\ edges' = RemoveNodes(edges, last'.nodes_to_remove)
           /\ Range(results') \cap last'.nodes_to_remove = {})]_vars

\* C4: after every successful _replace_subgraph call every member of
\* graph.results is a node of the graph.
C4_NoOrphanedResults ==
    (IsReplaceSubgraph(last) /\ last.outcome = "ok") => Range(results) \subseteq nodes

\* a call that returned and was given a replacement graph
Replaced(c) ==
    IsReplaceSubgraph(c) /\ c.outcome = "ok" /\ c.graph # NoGraph

\* the host nodes the call c does not remove
Survivors(c) == nodes \ c.nodes_to_remove

\* the consumers the call c reconnects: the replacement nodes and the
\* surviving nodes that consumed from a removed node
Consumers(c) ==
    c.graph.nodes \cup
        {s \in Survivors(c) : \E n \in c.nodes_to_remove : <<n, s>> \in edges}

\* the surviving host nodes that output the key k
HostProducers(c, k) == {h \in Survivors(c) : k \in OutputKeys(h)}

\* C21: after a successful _replace_subgraph with a replacement graph every
\* replacement node is in the host graph, and for every replacement node and
\* every affected successor and each of its inputs the host graph has an
\* edge to the consumer from the node the merged index gives for the input's
\* key (a surviving host producer of the key if there is one, else a
\* replacement producer); both ends of the edge are in the graph.
C21_Reconnection ==
    [][Replaced(last') =>
        /\ last'.graph.nodes \subseteq nodes'
        /\ \A n \in Consumers(last') : \A i \in DOMAIN inputs[n] :
            LET k == key(inputs[n][i])
                host == HostProducers(last', k)
                given == IF host # {} THEN host
                         ELSE {r \in last'.graph.nodes : k \in OutputKeys(r)}
            IN  \E u \in given :
                    <<u, n>> \in edges' /\ u \in nodes' /\ n \in nodes']_vars

\* C21's case: Q was replaced by Q2; the replacement node Q2 is fed by P and
\* feeds R, the affected successor.
C21_Witness ==
    /\ Replaced(last)
    /\ last.graph.nodes = {"Q2"}
    /\ last.nodes_to_remove = {"Q"}
    /\ "Q" \notin nodes
    /\ {"P", "Q2", "R"} \subseteq nodes
    /\ {<<"P", "Q2">>, <<"Q2", "R">>} \subseteq edges

\* C25: when the key of an input is output both by a replacement node that
\* is new to the host graph and by a surviving host node, the merged index
\* maps it to the host node: after a successful call every consumer of the
\* key among the replacement nodes and the affected successors has an edge
\* from a surviving host producer and none from the replacement node.
C25_HostProducerWins ==
    [][Replaced(last') =>
        \A n \in Consumers(last') : \A i \in DOMAIN inputs[n] :
        \A r \in last'.graph.nodes \ nodes :
            LET k == key(inputs[n][i])
                host == HostProducers(last', k)
            IN  (k \in OutputKeys(r) /\ host # {}) =>
                    /\ \E h \in host : <<h, n>> \in edges'
                    /\ <<r, n>> \notin edges']_vars

\* C25's case: the replacement graph {Q2, R} was added while Q stays; Q2
\* and Q output the same key, and R is connected to Q, not to Q2.
C25_Witness ==
    /\ Replaced(last)
    /\ last.graph.nodes = {"Q2", "R"}
    /\ last.nodes_to_remove = {}
    /\ {"Q", "Q2", "R"} \subseteq nodes
    /\ <<"Q", "R">> \in edges
    /\ <<"Q2", "R">> \notin edges

----------------------------------------------------------------------------
(* Claims about OptimizationRecords, checked under RecordsSpec             *)

IsForward(c) == c.op = "get_optimization_result"
IsBackward(c) == c.op = "get_original_entity"

Max(S) == CHOOSE x \in S : \A y \in S : y <= x

\* positions of the log whose record names n
Touching(n) ==
    {i \in DOMAIN records :
        records[i].original_entity = n \/ records[i].new_entity = n}

\* entities that appear in no record
Untouched(n) == Touching(n) = {}

\* positions of the Replace and Delete records appended for original n
OriginalSide(n) ==
    {i \in DOMAIN records :
        /\ records[i].record_type \in {"replace", "delete"}
        /\ records[i].original_entity = n}

\* positions of the New and Replace records appended for replacement n
ReplacementSide(n) ==
    {i \in DOMAIN records :
        /\ records[i].record_type \in {"new", "replace"}
        /\ records[i].new_entity = n}

\* C5: forward and backward resolution return for every log, cyclic ones
\* included: no call is left looping.
C5_ResolutionTerminates ==
    (IsForward(last) \/ IsBackward(last)) => last.ret # Hang

NoChain == "NoChain"

\* The last replacement of the chain of Replace records that starts at
\* original a: the records Replace(a, b), Replace(b, c), ... were appended in
\* this order, the entities are distinct, and no other record names one of
\* them. `prev` is the position of the record that led to a (0: none) and
\* `seen` the entities before a. NoChain when there is no such chain.
RECURSIVE ChainEnd(_, _, _)
ChainEnd(a, prev, seen) ==
    LET rest == Touching(a) \ {prev}
    IN  IF a \in seen THEN NoChain
        ELSE IF rest = {} THEN (IF prev = 0 THEN NoChain ELSE a)
        ELSE IF Cardinality(rest) # 1 THEN NoChain
        ELSE LET i == Max(rest)
             IN  IF /\ i > prev
                    /\ records[i].record_type = "replace"
                    /\ records[i].original_entity = a
                 THEN ChainEnd(records[i].new_entity, i, seen \cup {a})
                 ELSE NoChain

\* The first original of the chain of Replace records that ends at
\* replacement a, likewise; `next` is the position of the record a led to
\* (0: none).
RECURSIVE ChainStart(_, _, _)
ChainStart(a, next, seen) ==
    LET rest == Touching(a) \ {next}
    IN  IF a \in seen THEN NoChain
        ELSE IF rest = {} THEN (IF next = 0 THEN NoChain ELSE a)
        ELSE IF Cardinality(rest) # 1 THEN NoChain
        ELSE LET i == Max(rest)
             IN  IF /\ (next = 0 \/ i < next)
                    /\ records[i].record_type = "replace"
                    /\ records[i].new_entity = a
                 THEN ChainStart(records[i].original_entity, i, seen \cup {a})
                 ELSE NoChain

\* C6: a chain of Replace records over distinct entities that no other
\* record touches resolves forward from its first original to its last
\* replacement and backward from the last replacement to the first original.
C6_Transitivity ==
    /\ IsForward(last) =>
          LET e == ChainEnd(last.entity, 0, {})
          IN  e # NoChain => last.ret = e
    /\ IsBackward(last) =>
          LET e == ChainStart(last.entity, 0, {})
          IN  e # NoChain => last.ret = e

\* C6's case: A replaced by B, B later replaced by C, A resolved forward.
C6_Witness ==
    /\ Len(records) = 2
    /\ records[1].record_type = "replace"
    /\ records[2].record_type = "replace"
    /\ records[1].new_entity = records[2].original_entity
    /\ Cardinality({records[1].original_entity, records[1].new_entity,
                    records[2].new_entity}) = 3
    /\ IsForward(last)
    /\ last.entity = records[1].original_entity
    /\ last.ret = records[2].new_entity

\* entities reachable from S through the Replace records of the log
RECURSIVE ReplaceChain(_)
ReplaceChain(S) ==
    LET T == S \cup {records[i].new_entity : i \in
                        {j \in DOMAIN records :
                            /\ records[j].record_type = "replace"
                            /\ records[j].original_entity \in S}}
    IN  IF T = S THEN S ELSE ReplaceChain(T)

\* C7 as stated: a Delete record appended at any point for A or for a node
\* of A's Replace chain makes a returning get_optimization_result(A, default)
\* return the deleted-sentinel, whatever was appended earlier or later.
C7_DeleteDominatesWheneverAppended ==
    (/\ IsForward(last)
     /\ last.ret # Hang
     /\ \E i \in DOMAIN records :
            /\ records[i].record_type = "delete"
            /\ records[i].original_entity \in ReplaceChain({last.entity}))
    => last.ret = None

\* the latest Replace or Delete record appended for original n
LatestOriginalSide(n) == records[Max(OriginalSide(n))]

\* Following, from a, the latest Replace record of each original leads,
\* through `hops` or more hops over entities not in `seen`, to an original
\* whose latest record is a Delete.
RECURSIVE DeleteOnCurrentChain(_, _, _)
DeleteOnCurrentChain(a, seen, hops) ==
    /\ a \notin seen
    /\ OriginalSide(a) # {}
    /\ \/ hops <= 0 /\ LatestOriginalSide(a).record_type = "delete"
       \/ /\ LatestOriginalSide(a).record_type = "replace"
          /\ DeleteOnCurrentChain(LatestOriginalSide(a).new_entity,
                                  seen \cup {a}, hops - 1)

\* C7 amended: when the latest records lead from A through Replace hops to a
\* node whose latest record is a Delete, get_optimization_result(A, default)
\* returns the deleted-sentinel, whatever the default.
C7_LatestDeleteDominates ==
    (IsForward(last) /\ DeleteOnCurrentChain(last.entity, {}, 0))
        => last.ret = None

\* C7's case: a Delete met after a Replace hop, with a node as the default.
C7_Witness ==
    /\ IsForward(last)
    /\ DeleteOnCurrentChain(last.entity, {}, 1)
    /\ last.default \in Nodes
    /\ last.ret = None

\* C8: with the same default, resolving a deleted node and then a node that
\* has no record never returns the same value twice.
C8_DeletedDistinctFromDefault ==
    [][(/\ IsForward(last) /\ IsForward(last')
        /\ last'.default = last.default
        /\ OriginalSide(last.entity) # {}
        /\ records[Max(OriginalSide(last.entity))].record_type = "delete"
        /\ Untouched(last'.entity))
       => last'.ret # last.ret]_vars

SameCall(c, d) ==
    c.op = d.op /\ c.entity = d.entity /\ c.default = d.default

\* C9: an untouched node resolves forward to itself when it is its own
\* default; a resolution call changes neither the log nor an index; and the
\* same call repeated returns the same value.
C9_UntouchedAndPure ==
    /\ []((IsForward(last) /\ Untouched(last.entity)
              /\ last.default = last.entity) => last.ret = last.entity)
    /\ [][(IsForward(last') \/ IsBackward(last')) => UNCHANGED recordVars]_vars
    /\ [][((IsForward(last) \/ IsBackward(last))
            /\ (IsForward(last') \/ IsBackward(last'))
            /\ SameCall(last, last')) => last'.ret = last.ret]_vars

\* C9's case: an untouched node resolved with itself as default, in a store
\* that holds records of other nodes.
C9_Witness ==
    /\ IsForward(last)
    /\ Untouched(last.entity)
    /\ last.default = last.entity
    /\ last.ret = last.entity
    /\ records # << >>

\* the latest New or Replace record appended for replacement n
LatestReplacementSide(n) == records[Max(ReplacementSide(n))]

\* Following, from a, the latest Replace record of each replacement leads,
\* through `hops` or more hops over entities not in `seen`, to a replacement
\* whose latest record is a New.
RECURSIVE NewOnBackwardChain(_, _, _)
NewOnBackwardChain(a, seen, hops) ==
    /\ a \notin seen
    /\ ReplacementSide(a) # {}
    /\ \/ hops <= 0 /\ LatestReplacementSide(a).record_type = "new"
       \/ /\ LatestReplacementSide(a).record_type = "replace"
          /\ NewOnBackwardChain(LatestReplacementSide(a).original_entity,
                                seen \cup {a}, hops - 1)

\* C10: when get_original_entity(n, default) walks Replace hops and meets a
\* New record it returns "no original" (None), not the default.
C10_NewHasNoOriginal ==
    (IsBackward(last) /\ NewOnBackwardChain(last.entity, {}, 0))
        => last.ret = None

\* C10's case: a New record met after a Replace hop, the default a node.
C10_Witness ==
    /\ IsBackward(last)
    /\ NewOnBackwardChain(last.entity, {}, 1)
    /\ last.default \in Nodes
    /\ last.ret = None

\* C17: the log is append-only and the indices are last-write-wins: every
\* append_record adds its record at the end of the log and changes no
\* earlier entry; the original index holds, for each key, the last appended
\* Replace or Delete record with that original, and the replacement index
\* the last appended New or Replace record with that replacement.
C17_AppendOnlyLastWriteWins ==
    /\ [](/\ DOMAIN original_entity_to_records
                 = {n \in Nodes \cup {None} : OriginalSide(n) # {}}
          /\ \A n \in DOMAIN original_entity_to_records :
                 original_entity_to_records[n] = LatestOriginalSide(n)
          /\ DOMAIN optimized_entity_to_records
                 = {n \in Nodes \cup {None} : ReplacementSide(n) # {}}
          /\ \A n \in DOMAIN optimized_entity_to_records :
                 optimized_entity_to_records[n] = LatestReplacementSide(n))
    /\ [][/\ SubSeq(records', 1, Len(records)) = records
          /\ last'.op = "append_record"
                 => records' = Append(records, last'.record)]_vars

\* C17's case: two different records appended for one original and two for
\* one replacement; each index holds the later one.
C17_Witness ==
    /\ Len(records) = 2
    /\ last.op = "append_record"
    /\ records[1] # records[2]
    /\ \/ /\ OriginalSide(records[2].original_entity) = {1, 2}
          /\ original_entity_to_records[records[2].original_entity] = records[2]
       \/ /\ ReplacementSide(records[2].new_entity) = {1, 2}
          /\ optimized_entity_to_records[records[2].new_entity] = records[2]

\* C26: the record-kind assertions of the two resolution methods never
\* fail: whatever records are appended, of the three kinds or of no kind,
\* every record in the original index is a Replace or a Delete, every record
\* in the replacement index is a Replace or a New, and no resolution call
\* ends in a failed assertion.
C26_AssertionsNeverFail ==
    /\ \A e \in DOMAIN original_entity_to_records :
          original_entity_to_records[e].record_type \in {"replace", "delete"}
    /\ \A e \in DOMAIN optimized_entity_to_records :
          optimized_entity_to_records[e].record_type \in {"replace", "new"}
    /\ (IsForward(last) \/ IsBackward(last)) => last.ret # AssertionError

\* C26's case: a record without a kind is in the log, after a Replace of
\* the same original, and that original has been resolved forward.
C26_Witness ==
    /\ IsForward(last)
    /\ Len(records) = 2
    /\ records[1].record_type = "replace"
    /\ records[2].record_type = None
    /\ records[2].original_entity = records[1].original_entity
    /\ last.entity = records[1].original_entity
    /\ last.ret = records[1].new_entity

----------------------------------------------------------------------------
(* OptimizationRule: collapsible predecessors                              *)

\* append_record for each record of rs, in order
RECURSIVE OriginalIndexWith(_, _)
OriginalIndexWith(d, rs) ==
    IF rs = << >> THEN d
    ELSE OriginalIndexWith(
            IF Head(rs).record_type \in {"replace", "delete"}
            THEN Put(d, Head(rs).original_entity, Head(rs)) ELSE d,
            Tail(rs))

RECURSIVE OptimizedIndexWith(_, _)
OptimizedIndexWith(d, rs) ==
    IF rs = << >> THEN d
    ELSE OptimizedIndexWith(
            IF Head(rs).record_type \in {"new", "replace"}
            THEN Put(d, Head(rs).new_entity, Head(rs)) ELSE d,
            Tail(rs))

append_records(rs) ==
    /\ records' = records \o rs
    /\ original_entity_to_records' =
          OriginalIndexWith(original_entity_to_records, rs)
    /\ optimized_entity_to_records' =
          OptimizedIndexWith(optimized_entity_to_records, rs)

\* _add_collapsable_predecessor(node, predecessor). The membership test is
\* on `predecessor`, the key written is its resolved original. A key that is
\* None cannot be weakly referenced (TypeError); pred_original missing from
\* the dictionary in the else branch is a KeyError.
add_collapsable_predecessor(node, predecessor, outcome) ==
    LET pred_original == get_original_entity(predecessor, predecessor)
    IN
    IF pred_original = Hang
    THEN outcome = Hang /\ UNCHANGED preds_to_remove
    ELSE IF pred_original = None
    THEN outcome = "TypeError" /\ UNCHANGED preds_to_remove
    ELSE IF predecessor \notin DOMAIN preds_to_remove
    THEN /\ preds_to_remove' = Put(preds_to_remove, pred_original, {node})
         /\ outcome = "ok"
    ELSE IF pred_original \notin DOMAIN preds_to_remove
    THEN outcome = "KeyError" /\ UNCHANGED preds_to_remove
    ELSE /\ preds_to_remove' =
                Put(preds_to_remove, pred_original,
                    preds_to_remove[pred_original] \cup {node})
         /\ outcome = "ok"

\* the node is not resolved forward
ResolvedOrSelf_Unresolved(node) == node

\* node = self._records.get_optimization_result(node) or node
ResolvedOrSelf(node) ==
    LET r == get_optimization_result(node, None)
    IN  IF r = None THEN node ELSE r

\* the test on graph.results dropped
IsResult_Never(pred_original, pred_opt) == FALSE

\* pred_opt in self._graph.results or pred_original in self._graph.results
IsResult(pred_original, pred_opt) ==
    pred_opt \in Range(results) \/ pred_original \in Range(results)

\* affect_succ, the set accounted for under pred_original
AffectSucc(pred_original) ==
    IF pred_original \in DOMAIN preds_to_remove
    THEN preds_to_remove[pred_original] ELSE {}

\* What the first loop of _remove_collapsable_predecessors does with one
\* predecessor: it leaves the call through an exception (a resolution that
\* never returns, a None key looked up in the weak dictionary), skips it,
\* keeps it, or lists it for removal.
PredOutcome(pred) ==
    LET pred_original == get_original_entity(pred, pred)
        pred_opt == get_optimization_result(pred, pred)
        affect_succ_opt ==
            {get_optimization_result(s, s) : s \in AffectSucc(pred_original)}
    IN
    IF pred_original = Hang \/ pred_opt = Hang THEN "Hang"
    ELSE IF IsResult(pred_original, pred_opt) THEN "skip"
    ELSE IF pred_original = None THEN "TypeError"
    ELSE IF Hang \in affect_succ_opt THEN "Hang"
    ELSE IF \A s \in successors(pred) : s \in affect_succ_opt THEN "remove"
    ELSE "keep"

Min(S) == CHOOSE x \in S : \A y \in S : x <= y

Delete(pred_original) == OptimizationRecord(pred_original, None, "delete")

\* _remove_collapsable_predecessors(node). The first loop changes nothing;
\* the second removes the listed predecessors in the order the graph gave
\* them, each followed by its Delete record, and stops at the first
\* remove_node of a node the graph does not hold.
remove_collapsable_predecessors(node, outcome) ==
    LET node1 == ResolvedOrSelf(node)
        unchanged == UNCHANGED <<nodes, edges, recordVars>>
    IN
    /\ UNCHANGED <<results, inputs, ruleVars>>
    /\ IF node1 = Hang THEN outcome = Hang /\ unchanged
       ELSE IF node1 \notin nodes THEN outcome = "KeyError" /\ unchanged
       ELSE
       LET errors == {PredOutcome(p) : p \in predecessors(node1)}
                        \cap {"Hang", "TypeError"}
           listed == {p \in predecessors(node1) : PredOutcome(p) = "remove"}
       IN
       IF errors # {} THEN outcome \in errors /\ unchanged
       ELSE
       \E order \in ListsOf(listed) :
           LET pred_opt(i) == get_optimization_result(order[i], order[i])
               pred_original(i) == get_original_entity(order[i], order[i])
               absent == {i \in DOMAIN order :
                            \/ pred_opt(i) \notin nodes
                            \/ \E j \in 1..(i - 1) : pred_opt(j) = pred_opt(i)}
               done == IF absent = {} THEN Len(order) ELSE Min(absent) - 1
               gone == {pred_opt(i) : i \in 1..done}
           IN
           /\ nodes' = nodes \ gone
           /\ edges' = RemoveNodes(edges, gone)
           /\ append_records([i \in 1..done |-> Delete(pred_original(i))])
           /\ outcome = (IF absent = {} THEN "ok" ELSE "KeyError")

----------------------------------------------------------------------------
(* A rule that rewrites one node and prunes its producers                  *)

\* A rule body on the chain P -> Q -> R with results [R]: it may replace one
\* node by one new node through _replace_subgraph, may append one record,
\* marks one or two collapsible predecessors and prunes once. pc.at is how
\* far the body is, pc.calls the calls it made; an exception ends it.
PruneInit ==
    /\ nodes = {"P", "Q", "R"}
    /\ edges = BuiltEdges(nodes)
    /\ results = <<"R">>
    /\ inputs = InitialInputs
    /\ NoRecords
    /\ preds_to_remove = EmptyDict
    /\ marked_nodes = {}
    /\ rule_types = << >>
    /\ op = OwnOp
    /\ pc = [at |-> "start", calls |-> << >>]
    /\ last = NoCall

\* the call left in `last` is over: it returned, or raised and ended the
\* rule body
Ended(at) ==
    pc' = [at |-> IF last'.outcome = "ok" THEN at ELSE "raised",
           calls |-> Append(pc.calls, last')]

\* the call is over: it returned, or raised and ended the rule body
Returned(call, at) ==
    /\ last' = call
    /\ pc' = [at |-> IF call.outcome = "ok" THEN at ELSE "raised",
              calls |-> Append(pc.calls, call)]

PruneReplace ==
    /\ pc.at = "start"
    /\ \E old \in nodes : \E new \in Nodes \ nodes :
        LET graph == EntityGraph({new})
            new_results == IF old \in Range(results) THEN {new} ELSE {}
            results_to_remove == IF old \in Range(results) THEN {old} ELSE {}
        IN  /\ replace_subgraph_body(graph, {old}, new_results,
                    results_to_remove,
                    Call(graph, {old}, new_results, results_to_remove, "ok"))
            /\ Ended("replaced")
    /\ UNCHANGED <<recordVars, ruleVars, rule_types, op>>

PruneRecord ==
    /\ pc.at \in {"start", "replaced"}
    /\ \E record \in RecordsOf(Nodes) :
        /\ append_record(record)
        /\ Returned([op |-> "append_record", record |-> record,
                     outcome |-> "ok"], "recorded")
    /\ UNCHANGED <<graphVars, ruleVars, rule_types, op>>

AddCall(node, predecessor, e) ==
    [op |-> "add_collapsable_predecessor", node |-> node,
     predecessor |-> predecessor, outcome |-> e]

PruneMark ==
    /\ pc.at \in {"start", "replaced", "recorded", "marked"}
    /\ \E node \in Nodes : \E predecessor \in Nodes :
       \E outcome \in Outcomes :
        /\ add_collapsable_predecessor(node, predecessor, outcome)
        /\ Returned(AddCall(node, predecessor, outcome),
                    IF pc.at = "marked" THEN "marked_twice" ELSE "marked")
    /\ UNCHANGED <<graphVars, recordVars, marked_nodes, rule_types, op>>

RemoveCall(node, e) ==
    [op |-> "remove_collapsable_predecessors", node |-> node, outcome |-> e]

PrunePrune ==
    /\ pc.at \in {"marked", "marked_twice"}
    /\ \E node \in Nodes : \E outcome \in Outcomes :
        /\ remove_collapsable_predecessors(node, outcome)
        /\ Returned(RemoveCall(node, outcome), "pruned")
    /\ UNCHANGED <<rule_types, op>>

PruneNext == PruneReplace \/ PruneRecord \/ PruneMark \/ PrunePrune

PruneSpec == PruneInit /\ [][PruneNext]_vars

----------------------------------------------------------------------------
(* Claims about the collapsible predecessors, checked under PruneSpec      *)

Replace(original, new) == OptimizationRecord(original, new, "replace")

\* The rule body of the end-to-end case: Q replaced by Q2 through
\* _replace_subgraph, Replace(Q, Q2) recorded, P marked collapsible for Q,
\* _remove_collapsable_predecessors(Q) called.
EndToEnd ==
    /\ pc.at \in {"pruned", "raised"}
    /\ Len(pc.calls) = 4
    /\ pc.calls[1] = Call(EntityGraph({"Q2"}), {"Q"}, {}, {}, "ok")
    /\ pc.calls[2] = [op |-> "append_record", record |-> Replace("Q", "Q2"),
                      outcome |-> "ok"]
    /\ pc.calls[3] = AddCall("Q", "P", "ok")
    /\ pc.calls[4].op = "remove_collapsable_predecessors"
    /\ pc.calls[4].node = "Q"

\* C14: after that rule body on P -> Q -> R with results [R], the graph is
\* Q2 -> R alone, the results are [R], the log holds a Delete record for P
\* and P resolves forward to the deleted value.
C14_EndToEndPruning ==
    EndToEnd =>
        /\ last = RemoveCall("Q", "ok")
        /\ nodes = {"Q2", "R"}
        /\ edges = {<<"Q2", "R">>}
        /\ results = <<"R">>
        /\ Delete("P") \in Range(records)
        /\ get_optimization_result("P", "P") = None

\* C14's case: the four calls have been made and P is gone.
C14_Witness ==
    /\ EndToEnd
    /\ "P" \notin nodes
    /\ records = <<Replace("Q", "Q2"), Delete("P")>>

\* two calls of _add_collapsable_predecessor for one predecessor have
\* returned, the second right after the first
MarkedTwice ==
    /\ pc.at = "marked_twice"
    /\ pc.calls[Len(pc.calls) - 1].predecessor = last.predecessor
    /\ get_original_entity(last.predecessor, last.predecessor)
            \in Nodes

\* C18: after _add_collapsable_predecessor(n1, p) and then (n2, p), the set
\* stored under the resolved original of p holds both n1 and n2, also when
\* that original is not p.
C18_AccumulatesPerOriginal ==
    MarkedTwice =>
        LET pred_original ==
                get_original_entity(last.predecessor, last.predecessor)
        IN  /\ pred_original \in DOMAIN preds_to_remove
            /\ {pc.calls[Len(pc.calls) - 1].node, last.node}
                    \subseteq preds_to_remove[pred_original]

----------------------------------------------------------------------------
(* _EvalRewriteOptimizationRule: _mark_node, _find_nodes_to_remove,        *)
(* _replace_with_new_node                                                  *)

\* _mark_node(node)
mark_node(node, outcome) ==
    LET marked == get_optimization_result(node, node)
    IN  IF marked = Hang
        THEN outcome = Hang /\ UNCHANGED marked_nodes
        ELSE /\ marked_nodes' = marked_nodes \cup {marked}
             /\ outcome = "ok"

\* pred_opt in results_set or pred_original in results_set
InResultsSet(pred_original, pred_opt) ==
    pred_opt \in Range(results) \/ pred_original \in Range(results)

\* What the loop of _find_nodes_to_remove can do with one predecessor, the
\* marked nodes being `marked`. all(...) stops at the first successor that
\* is not marked, so a successor whose resolution never returns is reached
\* or not, by the order in which the graph yields the successors.
FindOutcomes(pred, marked) ==
    LET pred_original == get_original_entity(pred, pred)
        pred_opt == get_optimization_result(pred, pred)
        succ_opt == {get_optimization_result(s, s) : s \in successors(pred)}
    IN
    IF pred_original = Hang \/ pred_opt = Hang THEN {"Hang"}
    ELSE IF InResultsSet(pred_original, pred_opt) THEN {"skip"}
    ELSE IF succ_opt \subseteq marked THEN {"remove"}
    ELSE (IF Hang \in succ_opt THEN {"Hang"} ELSE {})
            \cup (IF succ_opt \subseteq marked \cup {Hang} THEN {} ELSE {"keep"})

ReplaceCall(original_node, new_node, nodes_to_remove, e) ==
    [op |-> "replace_with_new_node", original_node |-> original_node,
     new_node |-> new_node, nodes_to_remove |-> nodes_to_remove,
     outcome |-> e]

\* _replace_with_new_node(original_node, new_node): the node is marked, the
\* removal set is computed and the Delete records of the predecessors in it
\* are appended, then _replace_subgraph runs, then the Replace record is
\* appended. An exception leaves what the earlier steps did. The call is
\* left in `last` with the removal set it computed.
replace_with_new_node(original_node, new_node) ==
    LET marked == get_optimization_result(original_node, original_node)
        marked1 == marked_nodes \cup {marked}
        node == ResolvedOrSelf(original_node)
        subgraph == EntityGraph({new_node})
        is_result == original_node \in Range(results)
        new_results == IF is_result THEN {new_node} ELSE {}
        results_to_remove == IF is_result THEN {original_node} ELSE {}
        raise(e) ==
            /\ last' = ReplaceCall(original_node, new_node, {}, e)
            /\ UNCHANGED <<graphVars, recordVars>>
    IN
    /\ UNCHANGED preds_to_remove
    /\ IF marked = Hang THEN raise(Hang) /\ UNCHANGED marked_nodes
       ELSE
       /\ marked_nodes' = marked1
       /\ IF node \notin nodes THEN raise("KeyError")
          ELSE
          \E found \in [predecessors(node) ->
                           {"Hang", "skip", "keep", "remove"}] :
          /\ \A p \in predecessors(node) :
                 found[p] \in FindOutcomes(p, marked1)
          /\ IF \E p \in predecessors(node) : found[p] = "Hang"
             THEN raise(Hang)
             ELSE
             \E removed_pairs \in
                    ListsOf({p \in predecessors(node) : found[p] = "remove"}) :
             LET pred_opt(i) ==
                     get_optimization_result(removed_pairs[i], removed_pairs[i])
                 pred_original(i) ==
                     get_original_entity(removed_pairs[i], removed_pairs[i])
                 deletes == [i \in DOMAIN removed_pairs |->
                                Delete(pred_original(i))]
                 nodes_to_remove ==
                     {node} \cup {pred_opt(i) : i \in DOMAIN removed_pairs}
             IN  /\ replace_subgraph_body(subgraph, nodes_to_remove,
                         new_results, results_to_remove,
                         ReplaceCall(original_node, new_node,
                                     nodes_to_remove, "ok"))
                 /\ append_records(
                       IF last'.outcome = "ok"
                       THEN Append(deletes, Replace(original_node, new_node))
                       ELSE deletes)

----------------------------------------------------------------------------
(* One rewrite by a rule                                                   *)

\* A rule body on a built graph with any results: it may append one record,
\* may mark one node or one collapsible predecessor, then rewrites a node
\* through _replace_with_new_node or prunes through
\* _remove_collapsable_predecessors.
RuleInit ==
    /\ nodes \in {{"P", "Q", "R"}, {"P", "Q", "Q2"}}
    /\ edges = BuiltEdges(nodes)
    /\ results \in {AList(S) : S \in SUBSET nodes}
    /\ inputs = InitialInputs
    /\ NoRecords
    /\ preds_to_remove = EmptyDict
    /\ marked_nodes = {}
    /\ rule_types = << >>
    /\ op = OwnOp
    /\ pc = [at |-> "start", calls |-> << >>]
    /\ last = NoCall

RuleRecord ==
    /\ pc.at = "start"
    /\ \E record \in RecordsOf(Nodes) :
        /\ append_record(record)
        /\ Returned([op |-> "append_record", record |-> record,
                     outcome |-> "ok"], "recorded")
    /\ UNCHANGED <<graphVars, ruleVars, rule_types, op>>

RuleMarkNode ==
    /\ pc.at \in {"start", "recorded"}
    /\ \E node \in Nodes : \E outcome \in Outcomes :
        /\ mark_node(node, outcome)
        /\ Returned([op |-> "mark_node", node |-> node,
                     outcome |-> outcome], "marked")
    /\ UNCHANGED <<graphVars, recordVars, preds_to_remove, rule_types, op>>

RuleMarkPredecessor ==
    /\ pc.at \in {"start", "recorded"}
    /\ \E node \in Nodes : \E predecessor \in Nodes :
       \E outcome \in Outcomes :
        /\ add_collapsable_predecessor(node, predecessor, outcome)
        /\ Returned(AddCall(node, predecessor, outcome), "marked")
    /\ UNCHANGED <<graphVars, recordVars, marked_nodes, rule_types, op>>

RuleRewrite ==
    /\ pc.at \in {"start", "recorded", "marked"}
    /\ \E original_node \in Nodes : \E new_node \in Nodes \ nodes :
        /\ replace_with_new_node(original_node, new_node)
        /\ Ended("done")
    /\ UNCHANGED <<rule_types, op>>

RulePrune ==
    /\ pc.at \in {"start", "recorded", "marked"}
    /\ \E node \in Nodes : \E outcome \in Outcomes :
        /\ remove_collapsable_predecessors(node, outcome)
        /\ Returned(RemoveCall(node, outcome), "done")
    /\ UNCHANGED <<rule_types, op>>

RuleNext ==
    \/ RuleRecord
    \/ RuleMarkNode
    \/ RuleMarkPredecessor
    \/ RuleRewrite
    \/ RulePrune

RuleSpec == RuleInit /\ [][RuleNext]_vars

----------------------------------------------------------------------------
(* Claims about pruning and rewriting, checked under RuleSpec              *)

IsPrune(c) == c.op = "remove_collapsable_predecessors"
IsRewrite(c) == c.op = "replace_with_new_node"

\* C13: _remove_collapsable_predecessors removes no node that is in
\* graph.results when it is called, whatever the log and the accounted-for
\* sets; and no predecessor that _find_nodes_to_remove adds to the removal
\* set is in graph.results.
C13_ResultsAreNeverPruned ==
    [][/\ IsPrune(last') => (nodes \ nodes') \cap Range(results) = {}
       /\ IsRewrite(last') =>
              (last'.nodes_to_remove \ {ResolvedOrSelf(last'.original_node)})
                  \cap Range(results) = {}]_vars

\* C13's case: the pruning call returned and left in the graph a
\* predecessor that is a result although all its successors are accounted
\* for.
C13_Witness ==
    /\ IsPrune(last)
    /\ last.outcome = "ok"
    /\ ResolvedOrSelf(last.node) \in nodes
    /\ \E pred \in predecessors(ResolvedOrSelf(last.node)) :
          /\ pred \in Range(results)
          /\ AffectSucc(pred) # {}
          /\ \A s \in successors(pred) :
                 s \in {get_optimization_result(x, x) : x \in AffectSucc(pred)}

\* C19: when _replace_subgraph fails its validation inside
\* _replace_with_new_node, the store holds no record that was not there
\* before the call.
C19_NoRecordWithoutCommit ==
    [][(IsRewrite(last') /\ last'.outcome = "ValueError")
            => records' = records]_vars

----------------------------------------------------------------------------
(* Optimizer: register_rule, optimize, _replace_inputs                     *)

\* the rule types that can be registered
RuleTypes == {"RuleA", "RuleB"}

\* cls._rule_types.append(rule_type), on the list made at the first call
register_rule(rule_type) == rule_types' = Append(rule_types, rule_type)

RegisterRule ==
    /\ pc.at = "idle"
    /\ Len(rule_types) < MaxRules
    /\ \E rule_type \in RuleTypes : register_rule(rule_type)
    /\ last' = [op |-> "register_rule"]
    /\ UNCHANGED <<graphVars, recordVars, ruleVars, op, pc>>

\* the rule type the loop of optimize takes in its i-th round, last first
RuleTypeAt_Reversed(i) == rule_types[Len(rule_types) + 1 - i]

\* for rule_type in cls._rule_types: the rule type of the i-th round
RuleTypeAt(i) == rule_types[i]

\* the loop goes on with the next rule type, or optimize returns
NextRound ==
    IF pc.i = Len(rule_types)
    THEN [pc EXCEPT !.at = "returned"]
    ELSE [pc EXCEPT !.at = "apply", !.i = pc.i + 1]

\* optimize(graph) starts: fresh records, no rule instance yet. pc.events is
\* what has run so far, pc.writers the rule instances that have written
\* into _preds_to_remove. Before any register_rule the class has no
\* _rule_types attribute and the loop header raises AttributeError.
Optimize ==
    /\ pc.at = "idle"
    /\ pc' = [at |-> IF rule_types = << >> THEN "raised" ELSE "apply",
              i |-> 1, events |-> << >>, writers |-> {}]
    /\ last' = [op |-> "optimize"]
    /\ UNCHANGED <<graphVars, recordVars, ruleVars, rule_types, op>>

\* rule.apply() of the i-th round is over: it returned ret ("True" or
\* "False"), or raised the exception ret
Applied(ret, writes) ==
    /\ last' = [op |-> "apply", rule |-> RuleTypeAt(pc.i), ret |-> ret]
    /\ pc' = [(CASE ret = "True" -> [pc EXCEPT !.at = "repair"]
                 [] ret = "False" -> NextRound
                 [] OTHER -> [pc EXCEPT !.at = "raised"])
                EXCEPT !.events = Append(@, <<"apply", RuleTypeAt(pc.i), ret>>),
                       !.writers = IF writes THEN @ \cup {RuleTypeAt(pc.i)}
                                   ELSE @]

\* _replace_node(original_node, new_node)
\* without the loop over the successors
replace_node_PredecessorsOnly(original_node, new_node) ==
    LET preds == predecessors(original_node)
    IN  /\ nodes' = (nodes \ {original_node}) \cup {new_node}
        /\ edges' = RemoveNodes(edges, {original_node})
                        \cup {<<pred, new_node>> : pred \in preds}
        /\ UNCHANGED <<results, inputs>>

replace_node(original_node, new_node) ==
    LET preds == predecessors(original_node)
        succs == successors(original_node)
    IN  /\ nodes' = (nodes \ {original_node}) \cup {new_node}
        /\ edges' = RemoveNodes(edges, {original_node})
                        \cup {<<pred, new_node>> : pred \in preds}
                        \cup {<<new_node, succ>> : succ \in succs}
        /\ UNCHANGED <<results, inputs>>

\* The apply() of a rule, one edit per call. The rule finds nothing to do;
ApplyNoMatch ==
    /\ pc.at = "apply"
    /\ Applied("False", FALSE)
    /\ UNCHANGED <<graphVars, recordVars, ruleVars, rule_types, op>>

\* or it replaces a node by a new one and records it;
ApplyReplaceNode ==
    /\ pc.at = "apply"
    /\ \E original_node \in nodes : \E new_node \in Nodes \ nodes :
        /\ replace_node(original_node, new_node)
        /\ append_record(Replace(original_node, new_node))
    /\ Applied("True", FALSE)
    /\ UNCHANGED <<ruleVars, rule_types, op>>

\* or it removes a node and records the deletion, as the pruning does;
ApplyRemoveNode ==
    /\ pc.at = "apply"
    /\ \E node \in nodes :
        /\ nodes' = nodes \ {node}
        /\ edges' = RemoveNodes(edges, {node})
        /\ append_record(Delete(node))
    /\ Applied("True", FALSE)
    /\ UNCHANGED <<results, inputs, ruleVars, rule_types, op>>

\* or it appends a record of its own;
ApplyRecord ==
    /\ pc.at = "apply"
    /\ \E record \in RecordsOf(Nodes) : append_record(record)
    /\ Applied("True", FALSE)
    /\ UNCHANGED <<graphVars, ruleVars, rule_types, op>>

\* or it marks a collapsible predecessor.
ApplyMark ==
    /\ pc.at = "apply"
    /\ \E node \in Nodes : \E predecessor \in Nodes :
       \E outcome \in Outcomes : \E ret \in {"True", "False"} :
        /\ add_collapsable_predecessor(node, predecessor, outcome)
        /\ IF outcome = "ok" THEN Applied(ret, TRUE)
           ELSE ret = "True" /\ Applied(outcome, FALSE)
    /\ UNCHANGED <<graphVars, recordVars, marked_nodes, rule_types, op>>

\* the nodes _replace_inputs reaches: the successors of the nodes
Repaired == {succ \in nodes : predecessors(succ) # {}}

\* new_inputs of one node
NewInputs(succ) ==
    [k \in DOMAIN inputs[succ] |->
        LET optimized == get_optimization_result(inputs[succ][k], None)
        IN  IF optimized = None THEN inputs[succ][k] ELSE optimized]

\* new_results
NewResults ==
    [k \in DOMAIN results |->
        get_optimization_result(results[k], results[k])]

\* After an apply() that returned True: _replace_inputs, then the results
\* are resolved. A resolution that never returns leaves optimize hanging.
Repair ==
    /\ pc.at = "repair"
    /\ IF \/ \E succ \in Repaired : Hang \in Range(NewInputs(succ))
          \/ Hang \in Range(NewResults)
       THEN /\ pc' = [pc EXCEPT !.at = "hung"]
            /\ last' = [op |-> "repair", outcome |-> "Hang"]
            /\ UNCHANGED <<inputs, results>>
       ELSE /\ inputs' = [n \in Nodes |->
                            IF n \in Repaired THEN NewInputs(n) ELSE inputs[n]]
            /\ results' = NewResults
            /\ pc' = [NextRound EXCEPT
                        !.events = Append(@, <<"repair", RuleTypeAt(pc.i), "ok">>)]
            /\ last' = [op |-> "repair", outcome |-> "ok"]
    /\ UNCHANGED <<nodes, edges, recordVars, ruleVars, rule_types, op>>

\* One optimize() call on the chain P -> Q -> R, after any registrations.
DriverInit ==
    /\ nodes = {"P", "Q", "R"}
    /\ edges = BuiltEdges(nodes)
    /\ results \in {<<"R">>, <<"Q", "R">>}
    /\ inputs = InitialInputs
    /\ NoRecords
    /\ NoRules
    /\ last = NoCall

DriverNext ==
    \/ RegisterRule
    \/ Optimize
    \/ ApplyNoMatch
    \/ ApplyReplaceNode
    \/ ApplyRemoveNode
    \/ ApplyRecord
    \/ ApplyMark
    \/ Repair

DriverSpec == DriverInit /\ [][DriverNext]_vars

----------------------------------------------------------------------------
(* Claims about the driver, checked under DriverSpec                       *)

\* optimize has started
Started == pc.at # "idle"

\* optimize is over: it returned, raised, or hangs
Over == pc.at \in {"returned", "raised", "hung"}

\* the repair of the last round has just returned
JustRepaired == last.op = "repair" /\ last.outcome = "ok"

\* x has a record as an original and resolves forward to None: deleted
Deleted(x) ==
    /\ x \in DOMAIN original_entity_to_records
    /\ get_optimization_result(x, x) = None

\* C11: a surviving node whose input resolves forward to the deleted value
\* makes the repair abort optimize(): the repair never returns leaving such
\* an input in place.
C11_DanglingInputAborts ==
    JustRepaired =>
        \A n \in nodes : \A k \in DOMAIN inputs[n] : ~Deleted(inputs[n][k])

\* positions of the apply() events of rule type t
AppliesOf(t) ==
    {k \in DOMAIN pc.events :
        pc.events[k][1] = "apply" /\ pc.events[k][2] = t}

\* C12 as stated: in every optimize() call the apply() of each registered
\* rule type runs exactly once.
C12_EachTypeExactlyOnce ==
    Over => \A t \in Range(rule_types) : Cardinality(AppliesOf(t)) = 1

\* the rule types whose apply() has run, in the order they ran
RECURSIVE AppliedTypes(_)
AppliedTypes(events) ==
    IF events = << >> THEN << >>
    ELSE IF Head(events)[1] = "apply"
    THEN <<Head(events)[2]>> \o AppliedTypes(Tail(events))
    ELSE AppliedTypes(Tail(events))

\* C12, amended: apply() runs once per entry of the registered list, in
\* list order, as far as the call gets; a call that returns has run every
\* entry; the repair runs right after each apply() that returned True and
\* before the next apply().
C12_OncePerEntryInOrder ==
    Started =>
        /\ AppliedTypes(pc.events)
              = SubSeq(rule_types, 1, Len(AppliedTypes(pc.events)))
        /\ pc.at = "returned" => AppliedTypes(pc.events) = rule_types
        /\ \A k \in DOMAIN pc.events :
              /\ pc.events[k][1] = "repair" =>
                    k > 1 /\ pc.events[k - 1]
                                = <<"apply", pc.events[k][2], "True">>
              /\ (pc.events[k][1] = "apply" /\ pc.events[k][3] = "True"
                     /\ k < Len(pc.events)) =>
                    pc.events[k + 1][1] = "repair"

\* C12's case: a returned call over two entries of the same rule type, the
\* first of them followed by a repair.
C12_Witness ==
    /\ pc.at = "returned"
    /\ Len(rule_types) = 2
    /\ rule_types[1] = rule_types[2]
    /\ Len(pc.events) = 3
    /\ pc.events[2][1] = "repair"

\* C16: what a rule instance finds in the collapsible-predecessor
\* bookkeeping when its apply() starts was written by that instance: nothing
\* written by another rule instance is visible to it.
C16_BookkeepingIsPerInstance ==
    (pc.at = "apply" /\ preds_to_remove # EmptyDict)
        => pc.writers \subseteq {RuleTypeAt(pc.i)}

\* C20: the repair leaves every node of the graph with every input equal to
\* the forward resolution of the input it had, whether or not the node has
\* a predecessor edge (inputs that resolve to a node are meant; the deleted
\* ones are C11's).
C20_RepairIsComplete ==
    [][(last'.op = "repair" /\ last'.outcome = "ok") =>
          \A n \in nodes : \A k \in DOMAIN inputs[n] :
              get_optimization_result(inputs[n][k], inputs[n][k]) \in Nodes
                  => inputs'[n][k]
                        = get_optimization_result(inputs[n][k], inputs[n][k])
      ]_vars

\* C23: the result repair never puts the deleted value into graph.results:
\* a repair that returns leaves one entry per result held before it, and
\* every entry is a node, the forward resolution of the previous entry or
\* that entry itself, also when the previous entry has a Delete record.
C23_RepairKeepsResultsNodes ==
    [][(last'.op = "repair" /\ last'.outcome = "ok") =>
          /\ Len(results') = Len(results)
          /\ \A k \in DOMAIN results :
                /\ results'[k] \in Nodes
                /\ results'[k] \in
                      {results[k], get_optimization_result(results[k], results[k])}
      ]_vars

----------------------------------------------------------------------------
(* _replace_node on its own                                                *)

\* A rule calls _replace_node with any two entities. For a node the graph
\* does not hold, predecessors() raises KeyError before anything is changed.
ReplaceNode ==
    \E original_node \in Nodes : \E new_node \in Nodes :
        /\ IF original_node \in nodes
           THEN /\ replace_node(original_node, new_node)
                /\ last' = [op |-> "replace_node",
                            original_node |-> original_node,
                            new_node |-> new_node, outcome |-> "ok"]
           ELSE /\ UNCHANGED graphVars
                /\ last' = [op |-> "replace_node",
                            original_node |-> original_node,
                            new_node |-> new_node, outcome |-> "KeyError"]
        /\ UNCHANGED <<recordVars, ruleVars, driverVars>>

\* one call of _replace_node on any graph a rule can meet
NodeNext == last = NoCall /\ ReplaceNode

NodeSpec == GraphInit /\ [][NodeNext]_vars

\* C22: _replace_node(old, new) on a node old of the graph, with new
\* distinct from old and not yet in the graph: afterwards old is not in the
\* graph, new is, the predecessors of new are the predecessors old had, the
\* successors of new are the successors old had, the edges not incident to
\* old are as they were (and no other edge exists), and neither the results
\* nor the provenance store has changed.
C22_ReplaceNodeRewires ==
    [][(/\ last'.op = "replace_node"
        /\ last'.original_node \in nodes
        /\ last'.new_node # last'.original_node
        /\ last'.new_node \notin nodes)
       => LET old == last'.original_node
              new == last'.new_node
          IN  /\ last'.outcome = "ok"
              /\ old \notin nodes'
              /\ new \in nodes'
              /\ {u \in nodes' : <<u, new>> \in edges'}
                    = {u \in nodes : <<u, old>> \in edges}
              /\ {v \in nodes' : <<new, v>> \in edges'}
                    = {v \in nodes : <<old, v>> \in edges}
              /\ {e \in edges' : new \notin {e[1], e[2]}}
                    = {e \in edges : old \notin {e[1], e[2]}}
              /\ results' = results
              /\ records' = records
              /\ original_entity_to_records' = original_entity_to_records
              /\ optimized_entity_to_records' = optimized_entity_to_records
      ]_vars

\* C22's case: Q, fed by P and feeding R, was replaced by Q2.
C22_Witness ==
    /\ last.op = "replace_node"
    /\ last.outcome = "ok"
    /\ last.original_node = "Q"
    /\ last.new_node = "Q2"
    /\ "Q" \notin nodes
    /\ {<<"P", "Q2">>, <<"Q2", "R">>} \subseteq edges

----------------------------------------------------------------------------
(* OperandBasedOptimizationRule.apply                                      *)

\* list(self._graph.topological_iter()): the nodes, producers first
TopologicalOrders ==
    {order \in ListsOf(nodes) :
        \A i \in DOMAIN order : \A j \in DOMAIN order :
            <<order[i], order[j]>> \in edges => i < j}

\* apply() starts: the snapshot of the nodes is taken. pc.visited and
\* pc.optimized are its locals; pc.matched and pc.applied list the operands
\* handed to match_operand and to apply_to_operand, once per call, and
\* pc.matches the operands for which match_operand returned True.
\* pc.interesting holds the operands that are instances of an operand type
\* registered for the rule.
ApplyStart ==
    /\ pc.at = "idle"
    /\ \E order \in TopologicalOrders :
       \E interesting \in SUBSET {op[n] : n \in nodes} :
        pc' = [at |-> "loop", entities |-> order, k |-> 1, visited |-> {},
               optimized |-> FALSE, matched |-> << >>, applied |-> << >>,
               matches |-> {}, interesting |-> interesting]
    /\ last' = [op |-> "apply"]
    /\ UNCHANGED <<graphVars, recordVars, ruleVars, rule_types, op>>

\* the entity of this round of the loop
Entity == pc.entities[pc.k]

\* the operand is taken for visited whatever was seen
Visited_Never(operand) == FALSE

\* op in visited
Visited(operand) == operand \in pc.visited

\* the loop is in a round
InLoop == pc.at = "loop" /\ pc.k <= Len(pc.entities)

\* the round is over
NextEntity(fields) == pc' = [fields EXCEPT !.k = pc.k + 1]

\* if op in visited: continue
LoopVisited ==
    /\ InLoop
    /\ Visited(op[Entity])
    /\ NextEntity(pc)
    /\ UNCHANGED <<graphVars, recordVars, ruleVars, rule_types, op, last>>

\* visited.add(op); if entity not in self._graph: continue
LoopRemoved ==
    /\ InLoop
    /\ ~Visited(op[Entity])
    /\ Entity \notin nodes
    /\ NextEntity([pc EXCEPT !.visited = @ \cup {op[Entity]}])
    /\ UNCHANGED <<graphVars, recordVars, ruleVars, rule_types, op, last>>

\* the operand is not of a type of the rule: match_operand is not called
LoopOtherType ==
    /\ InLoop
    /\ ~Visited(op[Entity])
    /\ Entity \in nodes
    /\ op[Entity] \notin pc.interesting
    /\ NextEntity([pc EXCEPT !.visited = @ \cup {op[Entity]}])
    /\ UNCHANGED <<graphVars, recordVars, ruleVars, rule_types, op, last>>

\* match_operand(op) returns False
LoopNoMatch ==
    /\ InLoop
    /\ ~Visited(op[Entity])
    /\ Entity \in nodes
    /\ op[Entity] \in pc.interesting
    /\ NextEntity([pc EXCEPT !.visited = @ \cup {op[Entity]},
                             !.matched = Append(@, op[Entity])])
    /\ UNCHANGED <<graphVars, recordVars, ruleVars, rule_types, op, last>>

\* match_operand(op) returns True and apply_to_operand(op) runs: the rule
\* rewrites, which here removes at most one node from the graph and adds at
\* most one, connected to the producers and consumers of its keys
LoopMatch ==
    /\ InLoop
    /\ ~Visited(op[Entity])
    /\ Entity \in nodes
    /\ op[Entity] \in pc.interesting
    /\ \E removed \in SetsUpTo(nodes, 1) :
       \E added \in SetsUpTo(Nodes \ nodes, 1) :
        /\ nodes' = (nodes \ removed) \cup added
        /\ edges' = RemoveNodes(edges, removed)
                        \cup {e \in KeyEdges(nodes') :
                                e[1] \in added \/ e[2] \in added}
    /\ NextEntity([pc EXCEPT !.visited = @ \cup {op[Entity]},
                             !.optimized = TRUE,
                             !.matched = Append(@, op[Entity]),
                             !.applied = Append(@, op[Entity]),
                             !.matches = @ \cup {op[Entity]}])
    /\ UNCHANGED <<results, inputs, recordVars, ruleVars, rule_types, op, last>>

\* return optimized
ApplyReturn ==
    /\ pc.at = "loop"
    /\ pc.k > Len(pc.entities)
    /\ pc' = [pc EXCEPT !.at = "returned"]
    /\ last' = [op |-> "apply", ret |-> pc.optimized]
    /\ UNCHANGED <<graphVars, recordVars, ruleVars, rule_types, op>>

\* Q2 as the second output of the operand of Q
SharedOp == [OwnOp EXCEPT !["Q2"] = "Q"]

\* One apply() of an operand-based rule on a built graph; an operand has
\* one output node, or two.
ApplyInit ==
    /\ nodes \in {{"P", "Q", "R"}, {"P", "Q", "Q2"}, {"P", "Q", "R", "Q2"}}
    /\ edges = BuiltEdges(nodes)
    /\ results = << >>
    /\ inputs = InitialInputs
    /\ NoRecords
    /\ preds_to_remove = EmptyDict
    /\ marked_nodes = {}
    /\ rule_types = << >>
    /\ op \in {OwnOp, SharedOp}
    /\ pc = [at |-> "idle"]
    /\ last = NoCall

ApplyNext ==
    \/ ApplyStart
    \/ LoopVisited
    \/ LoopRemoved
    \/ LoopOtherType
    \/ LoopNoMatch
    \/ LoopMatch
    \/ ApplyReturn

ApplySpec == ApplyInit /\ [][ApplyNext]_vars

----------------------------------------------------------------------------
(* Claims about apply(), checked under ApplySpec                           *)

\* how many times operand o occurs in the list s
Count(s, o) == Cardinality({k \in DOMAIN s : s[k] = o})

\* C15: in one apply(), match_operand and apply_to_operand are each
\* evaluated at most once per operand, also when the operand has two output
\* nodes in the graph; and apply() returns True exactly when match_operand
\* returned True for some operand.
C15_OncePerOperand ==
    pc.at \in {"loop", "returned"} =>
        /\ \A o \in Range(op) :
              Count(pc.matched, o) <= 1 /\ Count(pc.applied, o) <= 1
        /\ pc.at = "returned" => (last.ret <=> pc.matches # {})

\* the nodes that are in the graph and not in the snapshot of the pass: they
\* were added during the pass
AddedInPass == nodes \ Range(pc.entities)

\* an operand whose only output nodes were added during the pass has not
\* been handed to match_operand
AddedNotVisited ==
    \A n \in AddedInPass :
        (\A e \in Range(pc.entities) : op[e] # op[n])
            => op[n] \notin Range(pc.matched)

\* C24: no matching operand with a surviving node is skipped in a pass:
\* when the loop reaches an entity that is in the graph and whose operand is
\* of an interesting kind and has not been handed to match_operand yet (its
\* other output node was removed earlier in the pass, say), this round hands
\* the operand to match_operand; and nodes added to the graph during the
\* pass are not visited in it.
C24_SurvivingOperandIsOffered ==
    [][(pc.at = "loop" /\ pc'.at = "loop") =>
          /\ (/\ InLoop
              /\ Entity \in nodes
              /\ op[Entity] \in pc.interesting
              /\ op[Entity] \notin Range(pc.matched))
                => pc'.matched = Append(pc.matched, op[Entity])
          /\ AddedNotVisited'
      ]_vars

\* C15's case: apply() returned True on a graph that holds both outputs of
\* an operand, which was handed to match_operand.
C15_Witness ==
    /\ pc.at = "returned"
    /\ last.ret
    /\ op["Q2"] = op["Q"]
    /\ {"Q", "Q2"} \subseteq Range(pc.entities)
    /\ Count(pc.matched, op["Q"]) = 1

====
